---- MODULE Spec2Model ----
(***************************************************************************)
(* Model of Emotion_Web_App/app1.py: the text sanitizer (safe_text), the   *)
(* emotion output normalizer (normalize_emotion_output), the two scorers   *)
(* (detect_sentiment, detect_emotions) and the dataset branch of the       *)
(* Streamlit script (load, sentiment loop, filter, select by id).          *)
(*                                                                         *)
(* Python values are modelled as tagged records with a fixed field set so  *)
(* that heterogeneous values can be compared.  Strings are sequences of    *)
(* one-character strings.  Scores are natural numbers in hundredths        *)
(* (100 is the float 1.0); the code only orders and compares them.         *)
(***************************************************************************)
EXTENDS Naturals, Sequences, FiniteSets

VARIABLES
    pc,          \* position of the run: which call / script block was done last
    arg,         \* scorer harness: the value passed as `text`
    raw,         \* value returned by emotion_detector(text) in the last call
    retSent,     \* value returned by detect_sentiment (label, score)
    retEmo,      \* value returned by detect_emotions
    err,         \* exception / st.stop() outcome of the run, "none" if none
    sentLog,     \* texts given to sentiment_analyzer, with its answers, in call order
    emoCalls,    \* number of calls made to emotion_detector
    hasReview,   \* "review" in df.columns of the uploaded CSV
    hasId,       \* "id" in df.columns of the uploaded CSV
    rows,        \* the uploaded CSV as read by pd.read_csv
    df,          \* the working DataFrame
    sentiments,  \* accumulator `sentiments` of the sentiment loop
    scores,      \* accumulator `scores` of the sentiment loop
    filter_choice,
    df_filtered,
    id_list,
    selected_id,
    row          \* the row picked by the "Analyze Selected Review" handler

vars == <<pc, arg, raw, retSent, retEmo, err, sentLog, emoCalls, hasReview, hasId,
          rows, df, sentiments, scores, filter_choice, df_filtered, id_list,
          selected_id, row>>

----------------------------------------------------------------------------
(* Bounds of the model *)

MaxText == 2
MaxLen == 3
MaxRows == 3

----------------------------------------------------------------------------
(* Python scalar values *)

SV(t, s, n) == [t |-> t, s |-> s, n |-> n]
None == SV("none", <<>>, 0)
NaN == SV("nan", <<>>, 0)
Str(s) == SV("str", s, 0)
Num(n) == SV("num", <<>>, n)
\* a float, in hundredths
Flt(h) == SV("float", <<>>, h)

Whitespace == {" "}
Chars == {" ", "a"}

SeqsUpTo(S, n) == UNION {[1..k -> S] : k \in 0..n}

DigitChar(d) == <<"0", "1", "2", "3", "4", "5", "6", "7", "8", "9">>[d + 1]

RECURSIVE IntToStr(_)
IntToStr(n) == IF n < 10 THEN <<DigitChar(n)>>
               ELSE Append(IntToStr(n \div 10), DigitChar(n % 10))

RECURSIVE LStrip(_)
LStrip(s) == IF s # <<>> /\ Head(s) \in Whitespace THEN LStrip(Tail(s)) ELSE s

RECURSIVE RStrip(_)
RStrip(s) == IF s # <<>> /\ s[Len(s)] \in Whitespace
             THEN RStrip(SubSeq(s, 1, Len(s) - 1)) ELSE s

Strip(s) == RStrip(LStrip(s))

\* str(x) of a string or an int
PyStr(x) == CASE x.t = "str" -> x.s
              [] x.t = "num" -> IntToStr(x.n)

safe_text(x) == IF x.t = "none" THEN <<>>
                ELSE IF x.t = "nan" THEN <<>>
                ELSE Strip(PyStr(x))

----------------------------------------------------------------------------
(* Python compound values: dicts, lists and anything else *)

PV(k, hasLabel, label, hasScore, score, items) ==
    [k |-> k, hasLabel |-> hasLabel, label |-> label,
     hasScore |-> hasScore, score |-> score, items |-> items]

Dict(label, score) == PV("dict", TRUE, label, TRUE, score, <<>>)
DictLabelOnly(label) == PV("dict", TRUE, label, FALSE, None, <<>>)
DictScoreOnly(score) == PV("dict", FALSE, "", TRUE, score, <<>>)
EmptyDict == PV("dict", FALSE, "", FALSE, None, <<>>)
List(items) == PV("list", FALSE, "", FALSE, None, items)
Other == PV("other", FALSE, "", FALSE, None, <<>>)

isDict(v) == v.k = "dict"
isList(v) == v.k = "list"

NeutralDefault == Dict("neutral", Flt(100))

\* faulty variant: the batched shape is passed through instead of unwrapped
normalize_no_unwrap(result) ==
    IF isDict(result) THEN <<result>>
    ELSE IF isList(result) /\ Len(result.items) > 0
            /\ (isDict(result.items[1]) \/ isList(result.items[1]))
         THEN result.items
    ELSE <<NeutralDefault>>

normalize_emotion_output(result) ==
    IF isDict(result) THEN <<result>>
    ELSE IF isList(result) /\ Len(result.items) > 0 /\ isDict(result.items[1])
         THEN result.items
    ELSE IF isList(result) /\ Len(result.items) > 0 /\ isList(result.items[1])
         THEN result.items[1].items
    ELSE <<NeutralDefault>>

----------------------------------------------------------------------------
(* float(), dict.get() and sorted() as the scorers use them *)

Digits == {DigitChar(d) : d \in 0..9}
DigitVal(c) == CHOOSE d \in 0..9 : DigitChar(d) = c

RECURSIVE StrToNat(_)
StrToNat(s) == IF Len(s) = 1 THEN DigitVal(s[1])
               ELSE 10 * StrToNat(SubSeq(s, 1, Len(s) - 1)) + DigitVal(s[Len(s)])

\* float(x), in hundredths: a number converts, a string is stripped and parsed,
\* None raises TypeError, any other string raises ValueError.  (A NaN score is
\* outside the inputs of this model; the CASE has no arm for it.)
Float(x) ==
    CASE x.t = "float" -> [e |-> "none", v |-> x.n]
      [] x.t = "num" -> [e |-> "none", v |-> 100 * x.n]
      [] x.t = "none" -> [e |-> "TypeError", v |-> 0]
      [] x.t = "str" ->
            LET s == Strip(x.s)
            IN  IF s # <<>> /\ \A i \in 1..Len(s) : s[i] \in Digits
                THEN [e |-> "none", v |-> 100 * StrToNat(s)]
                ELSE [e |-> "ValueError", v |-> 0]

GetLabel(d, default) == IF d.hasLabel THEN d.label ELSE default
GetScore(d, default) == IF d.hasScore THEN d.score ELSE default

\* key=lambda x: float(x.get("score", 0.0))
SortKey(e) == Float(GetScore(e, Flt(0)))

RECURSIVE Reverse(_)
Reverse(s) == IF s = <<>> THEN <<>> ELSE Append(Reverse(Tail(s)), Head(s))

\* insertion of e behind every element whose key is <= its own
RECURSIVE InsertAsc(_, _)
InsertAsc(e, out) ==
    IF out = <<>> THEN <<e>>
    ELSE IF SortKey(Head(out)).v <= SortKey(e).v
         THEN <<Head(out)>> \o InsertAsc(e, Tail(out))
         ELSE <<e>> \o out

RECURSIVE StableAsc(_)
StableAsc(s) == IF s = <<>> THEN <<>>
                ELSE InsertAsc(s[Len(s)], StableAsc(SubSeq(s, 1, Len(s) - 1)))

\* the first exception the key function raises, going over the list in order
RECURSIVE FirstKeyError(_)
FirstKeyError(s) == IF s = <<>> THEN "none"
               ELSE IF SortKey(Head(s)).e # "none" THEN SortKey(Head(s)).e
               ELSE FirstKeyError(Tail(s))

\* faulty variant: ascending sort reversed afterwards (sorted(...)[::-1])
SortedRevUnstable(s) == Reverse(StableAsc(s))
\* list.sort(reverse=True) reverses, sorts stably ascending, and reverses again
SortedReverse(s) == Reverse(StableAsc(Reverse(s)))

----------------------------------------------------------------------------
(* The scorers *)

NoSent == [label |-> "", score |-> 0]
NoRaw == PV("unset", FALSE, "", FALSE, None, <<>>)

\* faulty variant: no test for empty text (as detect_feedback of app.py)
detect_sentiment_unguarded(x, r) ==
    LET f == Float(GetScore(r, Flt(0)))
    IN  [called |-> TRUE, text |-> safe_text(x), e |-> f.e,
         label |-> GetLabel(r, "NEUTRAL"), score |-> f.v]
\* detect_sentiment(x), r being what sentiment_analyzer(text)[0] is if it is called
detect_sentiment(x, r) ==
    LET text == safe_text(x)
        f == Float(GetScore(r, Flt(0)))
    IN  IF text = <<>>
        THEN [called |-> FALSE, text |-> text, e |-> "none", label |-> "NEUTRAL", score |-> 0]
        ELSE [called |-> TRUE, text |-> text, e |-> f.e,
              label |-> GetLabel(r, "NEUTRAL"), score |-> f.v]

\* emotions = [e for e in emotions if isinstance(e, dict) and "label" in e and "score" in e]
KeepEmotion(e) == isDict(e) /\ e.hasLabel /\ e.hasScore
\* faulty variant: the keys are not tested
FilterEmotionsAnyDict(emotions) == SelectSeq(emotions, isDict)
FilterEmotions(emotions) == SelectSeq(emotions, KeepEmotion)

\* detect_emotions(x), rw being what emotion_detector(text) returns if it is called
detect_emotions(x, rw) ==
    LET text == safe_text(x)
        normalized == normalize_emotion_output(rw)
        kept == FilterEmotions(normalized)
        emotions == IF kept = <<>> THEN <<NeutralDefault>> ELSE kept
    IN  IF text = <<>>
        THEN [called |-> FALSE, e |-> "none", v |-> <<NeutralDefault>>]
        ELSE IF FirstKeyError(emotions) # "none"
        THEN [called |-> TRUE, e |-> FirstKeyError(emotions), v |-> <<>>]
        ELSE [called |-> TRUE, e |-> "none", v |-> SortedReverse(emotions)]

----------------------------------------------------------------------------
(* Inputs *)

TextInputs == {None, NaN, Num(42)} \cup {Str(s) : s \in SeqsUpTo(Chars, MaxText)}

Labels == {"joy", "anger"}
GoodScores == {Flt(0), Flt(50), Flt(100)}
WellFormed == {Dict(l, s) : l \in Labels, s \in GoodScores}
BadScored == {Dict("joy", None), Dict("joy", Str(<<"a">>)), Dict("fear", Str(<<" ", "1">>))}
Lacking == {DictLabelOnly("joy"), DictScoreOnly(Flt(50))}
Elems == WellFormed \cup BadScored \cup Lacking \cup {Other, List(<<Dict("joy", Flt(50))>>)}
FlatLists == {List(s) : s \in SeqsUpTo(Elems, MaxLen)}
\* batched shape: the first element is a list; what follows it is never read
NestedLists == {List(<<List(inner)>> \o rest) :
                   inner \in SeqsUpTo(Elems, MaxLen - 1),
                   rest \in {<<>>, <<List(<<Dict("anger", Flt(0))>>)>>}}
RawOutputs == {Other, EmptyDict} \cup WellFormed \cup BadScored \cup Lacking
              \cup FlatLists \cup NestedLists

SentimentOutputs == {Dict("POSITIVE", Flt(100)), Dict("NEGATIVE", Flt(50)), EmptyDict}

----------------------------------------------------------------------------
(* Scorer harness: one value is passed to detect_sentiment or to           *)
(* detect_emotions, with no call made to either classifier before.         *)

NoRow == [index |-> 0, id |-> None, review |-> <<>>, Sentiment |-> "", SentimentScore |-> 0]

ScorerInit ==
    /\ pc = "start"
    /\ arg \in TextInputs
    /\ raw = NoRaw
    /\ retSent = NoSent
    /\ retEmo = <<>>
    /\ err = "none"
    /\ sentLog = <<>>
    /\ emoCalls = 0
    /\ hasReview = FALSE
    /\ hasId = FALSE
    /\ rows = <<>>
    /\ df = <<>>
    /\ sentiments = <<>>
    /\ scores = <<>>
    /\ filter_choice = ""
    /\ df_filtered = <<>>
    /\ id_list = <<>>
    /\ selected_id = None
    /\ row = NoRow

datasetVars == <<hasReview, hasId, rows, df, sentiments, scores, filter_choice,
                 df_filtered, id_list, selected_id, row>>

CallDetectSentiment ==
    /\ pc = "start"
    /\ \E r \in SentimentOutputs :
          LET d == detect_sentiment(arg, r)
          IN  /\ sentLog' = IF d.called THEN Append(sentLog, [text |-> d.text, resp |-> r])
                            ELSE sentLog
              /\ err' = d.e
              /\ retSent' = IF d.e = "none" THEN [label |-> d.label, score |-> d.score]
                            ELSE NoSent
    /\ pc' = "detect_sentiment"
    /\ UNCHANGED <<arg, raw, retEmo, emoCalls>>
    /\ UNCHANGED datasetVars

CallDetectEmotions ==
    /\ pc = "start"
    /\ \E rw \in RawOutputs :
          LET d == detect_emotions(arg, rw)
          IN  /\ emoCalls' = IF d.called THEN emoCalls + 1 ELSE emoCalls
              /\ raw' = IF d.called THEN rw ELSE NoRaw
              /\ err' = d.e
              /\ retEmo' = d.v
    /\ pc' = "detect_emotions"
    /\ UNCHANGED <<arg, retSent, sentLog>>
    /\ UNCHANGED datasetVars

ScorerNext == CallDetectSentiment \/ CallDetectEmotions

SpecScorer == ScorerInit /\ [][ScorerNext]_vars

----------------------------------------------------------------------------
(* Dataset branch of the script *)

\* cells of the CSV as pd.read_csv gives them: an empty cell is NaN
ReviewCells == {NaN, Str(<<" ">>), Str(<<"a", " ">>), Str(<<"a", "a">>)}
IdCells == {Num(7), NaN}
CsvRows(withReview, withId) ==
    SeqsUpTo([id : IF withId THEN IdCells ELSE {None},
              review : IF withReview THEN ReviewCells ELSE {None}], MaxRows)

\* what the "Analyze Selected Review" handler may get from emotion_detector
SelectedRawOutputs ==
    {List(<<List(<<Dict("joy", Flt(50)), Dict("anger", Flt(100))>>)>>),
     List(<<Dict("joy", None)>>)}

\* Python's ==, elementwise as pandas applies it: NaN equals nothing
PyEq(a, b) == a.t # "nan" /\ b.t # "nan" /\ a = b

\* if "id" not in df.columns: df["id"] = range(1, len(df) + 1)
\* (index is the row's position in the file, kept by pandas as the row label)
AssignIds(rws, withId) ==
    [i \in 1..Len(rws) |->
        [index |-> i,
         id |-> IF withId THEN rws[i].id ELSE Num(i),
         review |-> rws[i].review]]

\* faulty variant: rows are dropped by their cell as read, before it is stripped
CleanReviewsNoStrip(frame) ==
    LET cleaned == [i \in 1..Len(frame) |->
                       [index |-> frame[i].index, id |-> frame[i].id,
                        review |-> safe_text(frame[i].review),
                        Sentiment |-> "", SentimentScore |-> 0]]
        NonEmpty(r) == frame[r.index].review.t = "str" /\ frame[r.index].review.s # <<>>
    IN  SelectSeq(cleaned, NonEmpty)
\* df["review"] = df["review"].apply(safe_text); df = df[df["review"] != ""].copy()
CleanReviews(frame) ==
    LET cleaned == [i \in 1..Len(frame) |->
                       [index |-> frame[i].index, id |-> frame[i].id,
                        review |-> safe_text(frame[i].review),
                        Sentiment |-> "", SentimentScore |-> 0]]
        NonEmpty(r) == r.review # <<>>
    IN  SelectSeq(cleaned, NonEmpty)

\* faulty variant: the frame is walked from its last row
LoopTextBackwards(frame, done) == frame[Len(frame) - Len(done)].review
\* the text the loop `for text in df["review"]` hands over at its next iteration
LoopText(frame, done) == frame[Len(done) + 1].review

\* df["Sentiment"] = sentiments; df["SentimentScore"] = scores
WithSentiment(frame, labels, values) ==
    [i \in 1..Len(frame) |->
        [frame[i] EXCEPT !.Sentiment = labels[i], !.SentimentScore = values[i]]]

\* faulty variant: "Negative" taken as everything that is not POSITIVE
FilterByNotPositive(frame, choice) ==
    LET IsPositive(r) == r.Sentiment = "POSITIVE"
        IsNotPositive(r) == r.Sentiment # "POSITIVE"
    IN  IF choice = "Positive" THEN SelectSeq(frame, IsPositive)
        ELSE IF choice = "Negative" THEN SelectSeq(frame, IsNotPositive)
        ELSE frame
\* the three branches of the filter selection
FilterBy(frame, choice) ==
    LET IsPositive(r) == r.Sentiment = "POSITIVE"
        IsNegative(r) == r.Sentiment = "NEGATIVE"
    IN  IF choice = "Positive" THEN SelectSeq(frame, IsPositive)
        ELSE IF choice = "Negative" THEN SelectSeq(frame, IsNegative)
        ELSE frame

\* df_filtered["id"].tolist()
IdList(frame) == [i \in 1..Len(frame) |-> frame[i].id]

\* df_filtered[df_filtered["id"] == selected_id]
Lookup(frame, wanted) ==
    LET Matches(r) == PyEq(r.id, wanted) IN SelectSeq(frame, Matches)

Init ==
    /\ pc = "idle"
    /\ arg = None
    /\ raw = NoRaw
    /\ retSent = NoSent
    /\ retEmo = <<>>
    /\ err = "none"
    /\ sentLog = <<>>
    /\ emoCalls = 0
    /\ hasReview = FALSE
    /\ hasId = FALSE
    /\ rows = <<>>
    /\ df = <<>>
    /\ sentiments = <<>>
    /\ scores = <<>>
    /\ filter_choice = ""
    /\ df_filtered = <<>>
    /\ id_list = <<>>
    /\ selected_id = None
    /\ row = NoRow

scorerVars == <<arg, raw, retSent, retEmo>>

\* uploaded_file is set and pd.read_csv has read it
Upload ==
    /\ pc = "idle"
    /\ \E withReview, withId \in BOOLEAN :
          /\ hasReview' = withReview
          /\ hasId' = withId
          /\ rows' \in CsvRows(withReview, withId)
    /\ pc' = "uploaded"
    /\ UNCHANGED <<err, sentLog, emoCalls, df, sentiments, scores, filter_choice,
                   df_filtered, id_list, selected_id, row>>
    /\ UNCHANGED scorerVars

\* validate the column, create the ids, clean the reviews, stop on an empty frame
Load ==
    /\ pc = "uploaded"
    /\ IF ~hasReview
       THEN /\ err' = "SchemaError"
            /\ pc' = "stopped"
            /\ df' = df
       ELSE LET loaded == CleanReviews(AssignIds(rows, hasId))
            IN  /\ df' = loaded
                /\ err' = IF loaded = <<>> THEN "EmptyDataset" ELSE "none"
                /\ pc' = IF loaded = <<>> THEN "stopped" ELSE "loaded"
    /\ UNCHANGED <<sentLog, emoCalls, hasReview, hasId, rows, sentiments, scores,
                   filter_choice, df_filtered, id_list, selected_id, row>>
    /\ UNCHANGED scorerVars

\* one iteration of the sentiment loop
SentimentLoopStep ==
    /\ pc = "loaded"
    /\ Len(sentiments) < Len(df)
    /\ \E r \in SentimentOutputs :
          LET d == detect_sentiment(Str(LoopText(df, sentiments)), r)
          IN  /\ sentLog' = IF d.called THEN Append(sentLog, [text |-> d.text, resp |-> r])
                            ELSE sentLog
              /\ err' = d.e
              /\ pc' = IF d.e = "none" THEN "loaded" ELSE "stopped"
              /\ sentiments' = IF d.e = "none" THEN Append(sentiments, d.label) ELSE sentiments
              /\ scores' = IF d.e = "none" THEN Append(scores, d.score) ELSE scores
    /\ UNCHANGED <<emoCalls, hasReview, hasId, rows, df, filter_choice, df_filtered,
                   id_list, selected_id, row>>
    /\ UNCHANGED scorerVars

\* the loop is over: the two columns are attached
AttachSentiment ==
    /\ pc = "loaded"
    /\ Len(sentiments) = Len(df)
    /\ df' = WithSentiment(df, sentiments, scores)
    /\ pc' = "analyzed"
    /\ UNCHANGED <<err, sentLog, emoCalls, hasReview, hasId, rows, sentiments, scores,
                   filter_choice, df_filtered, id_list, selected_id, row>>
    /\ UNCHANGED scorerVars

\* the filter selectbox, the empty test, and the id list of the second selectbox
Filter ==
    /\ pc = "analyzed"
    /\ \E choice \in {"All", "Positive", "Negative"} :
          LET filtered == FilterBy(df, choice)
          IN  /\ filter_choice' = choice
              /\ df_filtered' = filtered
              /\ err' = IF filtered = <<>> THEN "EmptyFilterResult" ELSE "none"
              /\ pc' = IF filtered = <<>> THEN "stopped" ELSE "filtered"
              /\ id_list' = IF filtered = <<>> THEN <<>> ELSE IdList(filtered)
    /\ UNCHANGED <<sentLog, emoCalls, hasReview, hasId, rows, df, sentiments, scores,
                   selected_id, row>>
    /\ UNCHANGED scorerVars

\* selected_id = st.selectbox("Select Review ID", id_list)
SelectId ==
    /\ pc = "filtered"
    /\ \E i \in 1..Len(id_list) : selected_id' = id_list[i]
    /\ pc' = "selected"
    /\ UNCHANGED <<err, sentLog, emoCalls, hasReview, hasId, rows, df, sentiments, scores,
                   filter_choice, df_filtered, id_list, row>>
    /\ UNCHANGED scorerVars

\* the "Analyze Selected Review" button
AnalyzeSelected ==
    /\ pc = "selected"
    /\ LET found == Lookup(df_filtered, selected_id)
       IN  IF found = <<>>
           THEN /\ err' = "IndexError"
                /\ UNCHANGED <<row, sentLog, emoCalls, arg, raw, retSent, retEmo>>
           ELSE \E r \in SentimentOutputs, rw \in SelectedRawOutputs :
                   LET selected_review == found[1].review
                       s == detect_sentiment(Str(selected_review), r)
                       m == detect_emotions(Str(selected_review), rw)
                   IN  /\ row' = found[1]
                       /\ arg' = Str(selected_review)
                       /\ sentLog' = IF s.called
                                     THEN Append(sentLog, [text |-> s.text, resp |-> r])
                                     ELSE sentLog
                       /\ retSent' = IF s.e = "none"
                                     THEN [label |-> s.label, score |-> s.score]
                                     ELSE NoSent
                       /\ IF s.e # "none"
                          THEN err' = s.e /\ UNCHANGED <<emoCalls, raw, retEmo>>
                          ELSE /\ emoCalls' = IF m.called THEN emoCalls + 1 ELSE emoCalls
                               /\ raw' = IF m.called THEN rw ELSE NoRaw
                               /\ retEmo' = m.v
                               /\ err' = m.e
    /\ pc' = "done"
    /\ UNCHANGED <<hasReview, hasId, rows, df, sentiments, scores, filter_choice,
                   df_filtered, id_list, selected_id>>

Next ==
    \/ Upload
    \/ Load
    \/ SentimentLoopStep
    \/ AttachSentiment
    \/ Filter
    \/ SelectId
    \/ AnalyzeSelected

Spec == Init /\ [][Next]_vars

----------------------------------------------------------------------------
(* Properties of the scorers, checked under SpecScorer *)

Range(s) == {s[i] : i \in 1..Len(s)}
Count(e, s) == Cardinality({i \in 1..Len(s) : s[i] = e})
SameBag(s, t) == \A e \in Range(s) \cup Range(t) : Count(e, s) = Count(e, t)

\* a record with a label and a numeric score
IsLabeledScore(v) == v.k = "dict" /\ v.hasLabel /\ v.hasScore /\ v.score.t = "float"
AllLabeledScore(s) == \A i \in 1..Len(s) : IsLabeledScore(s[i])
DescendingByScore(s) == \A i, j \in 1..Len(s) : i < j => s[i].score.n >= s[j].score.n

ShapeSingle(v) == IsLabeledScore(v)
ShapeFlat(v) == v.k = "list" /\ v.items # <<>> /\ AllLabeledScore(v.items)
ShapeNested(v) == /\ v.k = "list" /\ v.items # <<>>
                  /\ v.items[1].k = "list" /\ v.items[1].items # <<>>
                  /\ AllLabeledScore(v.items[1].items)
InputRecords(v) == IF ShapeSingle(v) THEN <<v>>
                   ELSE IF ShapeFlat(v) THEN v.items
                   ELSE v.items[1].items

EmotionsReturned == pc = "detect_emotions" /\ emoCalls = 1

\* C1: for a raw output that is one record, a non-empty flat list of records, or
\* a list whose first element is a non-empty list of records, detect_emotions
\* returns a non-empty sequence holding exactly the input records (same
\* multiset), ordered by score descending.
C1_NormalizeKeepsRecords ==
    (EmotionsReturned /\ (ShapeSingle(raw) \/ ShapeFlat(raw) \/ ShapeNested(raw)))
        => /\ err = "none"
           /\ retEmo # <<>>
           /\ SameBag(retEmo, InputRecords(raw))
           /\ DescendingByScore(retEmo)

C1_Witness ==
    /\ EmotionsReturned
    /\ ShapeNested(raw)
    /\ Len(raw.items) = 2
    /\ Len(retEmo) = 2
    /\ retEmo # raw.items[1].items
    /\ retEmo[1].score.n > retEmo[2].score.n

\* an element that lacks a label or a score
Lacks(e) == ~(e.k = "dict" /\ e.hasLabel /\ e.hasScore)
Malformed(v) ==
    \/ v.k \notin {"dict", "list"}
    \/ v.k = "list" /\ v.items = <<>>
    \/ v.k = "list" /\ v.items # <<>> /\ v.items[1].k \notin {"dict", "list"}
    \/ v.k = "list" /\ v.items # <<>> /\ v.items[1].k = "list" /\ v.items[1].items = <<>>
    \/ v.k = "dict" /\ Lacks(v)
    \/ v.k = "list" /\ v.items # <<>> /\ v.items[1].k = "dict"
          /\ \A i \in 1..Len(v.items) : Lacks(v.items[i])
    \/ v.k = "list" /\ v.items # <<>> /\ v.items[1].k = "list"
          /\ \A i \in 1..Len(v.items[1].items) : Lacks(v.items[1].items[i])

\* C2: for a malformed or empty raw output the result is exactly
\* [{label: "neutral", score: 1.0}].
C2_MalformedFallsBack ==
    (EmotionsReturned /\ Malformed(raw))
        => err = "none" /\ retEmo = <<Dict("neutral", Flt(100))>>

C2_Witness ==
    /\ EmotionsReturned
    /\ raw.k = "list" /\ Len(raw.items) = 2
    /\ raw.items[1].k = "dict" /\ raw.items[1].hasLabel /\ ~raw.items[1].hasScore
    /\ raw.items[2].k = "dict" /\ ~raw.items[2].hasLabel
    /\ retEmo = <<Dict("neutral", Flt(100))>>

\* null, the missing-value marker, the empty string or a whitespace-only string
IsBlank(x) == \/ x.t \in {"none", "nan"}
              \/ x.t = "str" /\ \A i \in 1..Len(x.s) : x.s[i] = " "

\* C3: for a text whose sanitized form is empty detect_sentiment returns
\* (NEUTRAL, 0.0), detect_emotions returns [{neutral, 1.0}], and no call is made
\* to either external classifier.
C3_EmptyTextNoCall ==
    IsBlank(arg) =>
        /\ (pc = "detect_sentiment" => retSent = [label |-> "NEUTRAL", score |-> 0])
        /\ (pc = "detect_emotions" => retEmo = <<Dict("neutral", Flt(100))>>)
        /\ err = "none"
        /\ sentLog = <<>>
        /\ emoCalls = 0

C3_Witness ==
    /\ pc = "detect_sentiment"
    /\ arg = Str(<<" ", " ">>)
    /\ retSent = [label |-> "NEUTRAL", score |-> 0]
    /\ sentLog = <<>>

\* C8: for a non-empty text detect_emotions never ends in an error, whatever the
\* emotion classifier returned.
C8_NeverAnError ==
    pc = "detect_emotions" => err = "none"

\* the records the sort is given: the normalized output after the filter
SortInput(v) ==
    LET kept == FilterEmotions(normalize_emotion_output(v))
    IN  IF kept = <<>> THEN <<NeutralDefault>> ELSE kept
WithScore(s, n) == LET Has(e) == SortKey(e).v = n IN SelectSeq(s, Has)
ScoresOf(s) == {SortKey(s[i]).v : i \in 1..Len(s)}

\* C9: the returned sequence is sorted by score descending, records of equal
\* score keep the relative order they had in the classifier's output, the first
\* element has the greatest score, and sorting the result again changes nothing.
C9_StableDescending ==
    (EmotionsReturned /\ err = "none") =>
        /\ \A i, j \in 1..Len(retEmo) : i < j => SortKey(retEmo[i]).v >= SortKey(retEmo[j]).v
        /\ \A n \in ScoresOf(retEmo) \cup ScoresOf(SortInput(raw)) :
              WithScore(retEmo, n) = WithScore(SortInput(raw), n)
        /\ \A i \in 1..Len(retEmo) : SortKey(retEmo[1]).v >= SortKey(retEmo[i]).v
        /\ SortedReverse(retEmo) = retEmo

C9_Witness ==
    /\ EmotionsReturned /\ err = "none"
    /\ Len(retEmo) = 3
    /\ retEmo # SortInput(raw)
    /\ retEmo[1].score = retEmo[2].score
    /\ retEmo[1].label # retEmo[2].label
    /\ retEmo[2].score.n > retEmo[3].score.n

----------------------------------------------------------------------------
(* Properties of the dataset branch, checked under Spec *)

Loaded == pc \notin {"idle", "uploaded"}
Indexes(frame) == {frame[k].index : k \in 1..Len(frame)}
InSourceOrder(frame) == \A j, k \in 1..Len(frame) : j < k => frame[j].index < frame[k].index
Filtered == filter_choice # ""
WantedLabel == IF filter_choice = "Positive" THEN "POSITIVE" ELSE "NEGATIVE"

\* C4: "Positive" selects exactly the records labelled POSITIVE, "Negative"
\* exactly those labelled NEGATIVE, "All" leaves the set unchanged; the selected
\* records keep their relative order; the operation ends in EmptyFilterResult,
\* with nothing done after it, exactly when the selection is empty.
C4_FilterExact ==
    Filtered =>
        /\ filter_choice = "All" => df_filtered = df
        /\ filter_choice # "All" =>
              /\ \A k \in 1..Len(df) :
                    (df[k].Sentiment = WantedLabel)
                        <=> (\E j \in 1..Len(df_filtered) : df_filtered[j] = df[k])
              /\ \A j \in 1..Len(df_filtered) : \E k \in 1..Len(df) : df_filtered[j] = df[k]
        /\ InSourceOrder(df_filtered)
        /\ (err = "EmptyFilterResult") <=> (df_filtered = <<>>)
        /\ df_filtered = <<>> => pc = "stopped" /\ id_list = <<>> /\ emoCalls = 0

C4_Witness ==
    /\ pc = "filtered"
    /\ filter_choice = "Positive"
    /\ Len(df) = 3
    /\ df[2].Sentiment = "NEUTRAL"
    /\ Len(df_filtered) = 2
    /\ df_filtered[1].index = 1
    /\ df_filtered[2].index = 3

\* C5: after a successful load every record carries an id, and a row that had
\* none carries its 1-based position in the source rows.
C5_EveryRecordHasId ==
    (Loaded /\ hasReview /\ err # "EmptyDataset") =>
        \A k \in 1..Len(df) :
            /\ df[k].id.t = "num"
            /\ rows[df[k].index].id.t # "num" => df[k].id = Num(df[k].index)

\* C6: load keeps exactly the rows whose sanitized review is non-empty, in
\* source order; it ends in EmptyDataset exactly when no row survives; in that
\* outcome and in SchemaError no external classifier has been invoked.
C6_LoadKeepsNonEmpty ==
    Loaded =>
        /\ ~hasReview => err = "SchemaError"
        /\ hasReview =>
              /\ Indexes(df) = {i \in 1..Len(rows) : ~IsBlank(rows[i].review)}
              /\ InSourceOrder(df)
              /\ \A k \in 1..Len(df) : df[k].review # <<>>
              /\ (err = "EmptyDataset") <=> (\A i \in 1..Len(rows) : IsBlank(rows[i].review))
        /\ err \in {"SchemaError", "EmptyDataset"} =>
              /\ pc = "stopped"
              /\ df = <<>>
              /\ sentLog = <<>>
              /\ emoCalls = 0

C6_Witness ==
    /\ pc = "loaded"
    /\ Len(rows) = 3
    /\ rows[1].review = NaN
    /\ rows[2].review = Str(<<"a", " ">>)
    /\ rows[3].review = Str(<<" ">>)
    /\ Len(df) = 1
    /\ df[1].index = 2
    /\ df[1].review = <<"a">>

Attached == df # <<>> /\ df[1].Sentiment # ""

\* C7: the sentiment scorer is invoked once per record, one record at a time in
\* input order, and the k-th result is attached to the k-th record; the records
\* are those of the loaded set, in the same order and number.
C7_SequentialInOrder ==
    /\ pc = "loaded" =>
          /\ Len(sentLog) = Len(sentiments)
          /\ Len(sentLog) <= Len(df)
          /\ \A k \in 1..Len(sentLog) : sentLog[k].text = df[k].review
    /\ Attached =>
          /\ pc # "done" => Len(sentLog) = Len(df)
          /\ Len(sentLog) >= Len(df)
          /\ \A k \in 1..Len(df) :
                /\ sentLog[k].text = df[k].review
                /\ df[k].Sentiment = GetLabel(sentLog[k].resp, "NEUTRAL")
                /\ df[k].SentimentScore = GetScore(sentLog[k].resp, Flt(0)).n
                /\ df[k].id = IF hasId THEN rows[df[k].index].id ELSE Num(df[k].index)
          /\ Indexes(df) = {i \in 1..Len(rows) : ~IsBlank(rows[i].review)}
          /\ InSourceOrder(df)

C7_Witness ==
    /\ pc = "analyzed"
    /\ Len(df) = 3
    /\ df[1].review = df[3].review
    /\ df[1].id = df[3].id
    /\ df[2].review # df[1].review
    /\ df[1].Sentiment = "POSITIVE"
    /\ df[2].Sentiment = "NEUTRAL"
    /\ df[3].Sentiment = "NEGATIVE"

\* C10: the lookup of the selected id never fails, and the record analysed is
\* the first record of the filtered set whose id equals the selected id.
C10_SelectNeverFails ==
    pc = "done" =>
        /\ err # "IndexError"
        /\ \E k \in 1..Len(df_filtered) :
              /\ row = df_filtered[k]
              /\ row.id = selected_id
              /\ \A j \in 1..(k - 1) : df_filtered[j].id # selected_id

====
